---- MODULE Spec2Model ----
(***************************************************************************)
(* Model of the financial projection engine of the portfolio tracker:      *)
(*   src/backend/projection_service.py  (deterministic path, Monte Carlo   *)
(*   simulation, percentile aggregation, FI estimate, tax summary).        *)
(*                                                                         *)
(* Numbers.  The code computes in binary floating point.  The model uses   *)
(* fixed point: money in units of 1/MoneyScale, rates (returns,            *)
(* volatility, contribution increase) in units of 1/RateScale, the tax     *)
(* rate in units of 1/TaxScale of a percent.  Every floating point         *)
(* operation that rounds is modelled by rounding to the grid (half even),  *)
(* and round(x, 2) rounds money to a whole number of cents, which is       *)
(* coarser than the grid, so rounding is observable.                       *)
(*                                                                         *)
(* Optional values (Python None) are <<>> for None and <<v>> for a value.  *)
(***************************************************************************)
EXTENDS Integers, Sequences, FiniteSets, TLC

VARIABLES
  req,                \* the arguments of calculate_projection
  pc,                 \* position inside calculate_projection
  deterministic_path, \* calculate_projection: deterministic_path
  run,                \* which call of run_monte_carlo_simulation is executing (1, 2)
  sim,                \* run_monte_carlo_simulation: loop index sim
  year,               \* run_monte_carlo_simulation: loop index year (-1: trial not started)
  portfolio_value,    \* run_monte_carlo_simulation: portfolio_value (unrounded)
  path,               \* run_monte_carlo_simulation: path of the current trial
  fi_year,            \* run_monte_carlo_simulation: fi_year of the current trial
  mc_all_paths,       \* run_monte_carlo_simulation: all_paths
  mc_ending_values,   \* run_monte_carlo_simulation: ending_values
  mc_fi_years,        \* run_monte_carlo_simulation: fi_years
  sample_paths,       \* calculate_projection: sample_paths (first call)
  ending_values,      \* calculate_projection: ending_values (first call)
  fi_years,           \* calculate_projection: fi_years (first call)
  all_paths,          \* calculate_projection: all_paths (second call)
  result,             \* the dictionary calculate_projection returns
  trial_values,       \* history: portfolio_value after each year of the running trial
  trial_draws,        \* history: the annual returns drawn in the running trial
  caller,             \* "direct" or "http": who calls calculate_projection
  response,           \* calculate_projections: the HTTP response, once there is one
  log                 \* calculate_projections: the warnings logged

vars == <<req, pc, deterministic_path, run, sim, year, portfolio_value, path,
          fi_year, mc_all_paths, mc_ending_values, mc_fi_years, sample_paths,
          ending_values, fi_years, all_paths, result, trial_values,
          trial_draws, caller,
          response, log>>

----------------------------------------------------------------------------
(* Bounds of the model *)

MaxYears == 2
MaxSims == 2
MaxDraws == 3

(* Number grids *)

MoneyScale == 100000
RateScale == 1000
TaxScale == 10
ProbScale == 1000

(* Program constants *)

MonthsPerYear == 12
SampleSize == 10
WithdrawalRatePct == 4
DefaultNumSimulations == 500
CurrentCalendarYear == 2026

----------------------------------------------------------------------------
(* Optional values and Python truthiness *)

None == <<>>
Some(v) == <<v>>
IsNone(o) == o = None
Val(o) == o[1]
\* `if x:` on an Optional number: None and 0 are both false
Truthy(o) == o # None /\ o[1] # 0

Min(a, b) == IF a < b THEN a ELSE b

(* Rounding: n / d to the nearest integer, ties to even (d > 0) *)
RoundHalfEven(n, d) ==
  LET q == n \div d
      r == n % d
  IN IF 2 * r < d THEN q
     ELSE IF 2 * r > d THEN q + 1
     ELSE IF q % 2 = 0 THEN q ELSE q + 1

\* a * b / d to the nearest integer, ties to even (d > 0), computed through
\* the quotient and remainder of a so that the product stays in range
MulDivRound(a, b, d) ==
  LET low == (a % d) * b
      q == (a \div d) * b + (low \div d)
      r == low % d
  IN IF 2 * r < d THEN q
     ELSE IF 2 * r > d THEN q + 1
     ELSE IF q % 2 = 0 THEN q ELSE q + 1

\* round(x, 2) on money
Round2(v) == (MoneyScale \div 100) * RoundHalfEven(v, MoneyScale \div 100)

----------------------------------------------------------------------------
(* Path points *)

\* "age": current_age + year if current_age else None
AgeAt(current_age, y) ==
  IF Truthy(current_age) THEN Some(Val(current_age) + y) ELSE None

PathPoint(y, current_age, value) ==
  [year |-> y, age |-> AgeAt(current_age, y), portfolioValue |-> value]

\* Mutant: the year-0 value rounded like every later point
YearZeroValueRounded(current_value) == Round2(current_value)

\* portfolio_value = current_value; the year-0 point carries it as it is
YearZeroValue(current_value) == current_value

\* Mutant: range(years) instead of range(years + 1)
LastYearShort(years) == years - 1

\* Mutant: a horizon below one year taken as one year
LastYearAtLeastOne(years) == IF years < 1 THEN 1 ELSE years

\* for year in range(years + 1)
LastYear(years) == years

(* The monthly mechanics shared by both path builders (the code repeats them) *)

\* x / 12.0 on a rate
MonthlyReturn(annual_return) == RoundHalfEven(annual_return, MonthsPerYear)

RECURSIVE PowRate(_, _)
\* base ** n on the rate grid (base = 1 + rate)
PowRate(base, n) ==
  IF n <= 0 THEN RateScale
  ELSE RoundHalfEven(PowRate(base, n - 1) * base, RateScale)

\* Mutant: the increase applied from year 1 on (exponent year, not year - 1)
contribution_multiplierFromYearOne(annual_contribution_increase_pct, y) ==
  PowRate(RateScale + annual_contribution_increase_pct, y)

\* (1 + annual_contribution_increase_pct) ** (year - 1)
contribution_multiplier(annual_contribution_increase_pct, y) ==
  PowRate(RateScale + annual_contribution_increase_pct, y - 1)

\* monthly_contribution * contribution_multiplier
monthly_contribution_this_year(monthly_contribution, annual_contribution_increase_pct, y) ==
  MulDivRound(monthly_contribution,
              contribution_multiplier(annual_contribution_increase_pct, y), RateScale)

----------------------------------------------------------------------------
(* calculate_deterministic_projection *)

\* Mutant: the monthly return never applied
DetMonthStepNoReturn(value, contribution, monthly_return) == value + contribution

\* Mutant: the contribution left out of the monthly step
DetMonthStepNoContribution(value, contribution, monthly_return) ==
  MulDivRound(value, RateScale + monthly_return, RateScale)

\* portfolio_value += contribution; portfolio_value *= (1 + monthly_return)
DetMonthStep(value, contribution, monthly_return) ==
  MulDivRound(value + contribution, RateScale + monthly_return, RateScale)

RECURSIVE DetMonths(_, _, _, _)
\* for month in range(12): ...
DetMonths(value, contribution, monthly_return, months) ==
  IF months = 0 THEN value
  ELSE DetMonths(DetMonthStep(value, contribution, monthly_return),
                 contribution, monthly_return, months - 1)

RECURSIVE DetLoop(_, _, _, _, _, _, _, _)
DetLoop(y, value, acc, monthly_contribution, annual_contribution_increase_pct, monthly_return, years, current_age) ==
  IF y > LastYear(years) THEN acc
  ELSE IF y = 0
  THEN DetLoop(1, value, Append(acc, PathPoint(0, current_age, value)),
               monthly_contribution, annual_contribution_increase_pct,
               monthly_return, years, current_age)
  ELSE LET c == monthly_contribution_this_year(
                  monthly_contribution, annual_contribution_increase_pct, y)
           v == DetMonths(value, c, monthly_return, MonthsPerYear)
       IN DetLoop(y + 1, v, Append(acc, PathPoint(y, current_age, Round2(v))),
                  monthly_contribution, annual_contribution_increase_pct,
                  monthly_return, years, current_age)

calculate_deterministic_projection(current_value, monthly_contribution, annual_contribution_increase_pct, expected_annual_return_pct, years, current_age) ==
  DetLoop(0, YearZeroValue(current_value), <<>>, monthly_contribution,
          annual_contribution_increase_pct,
          MonthlyReturn(expected_annual_return_pct), years, current_age)

----------------------------------------------------------------------------
(* run_monte_carlo_simulation: the pieces of one trial *)

\* Standard normal deviates the model draws from
GaussDraws == {-1, 1}

\* random.gauss(mu, sigma) = mu + z * sigma for a standard normal deviate z
gauss(mu, sigma, z) == mu + z * sigma

\* Mutant: the return applied before the month's contribution is added
McMonthStepReturnFirst(value, contribution, monthly_return) ==
  MulDivRound(value, RateScale + monthly_return, RateScale) + contribution

\* portfolio_value += contribution; portfolio_value *= (1 + monthly_return)
McMonthStep(value, contribution, monthly_return) ==
  MulDivRound(value + contribution, RateScale + monthly_return, RateScale)

RECURSIVE McMonths(_, _, _, _)
McMonths(value, contribution, monthly_return, months) ==
  IF months = 0 THEN value
  ELSE McMonths(McMonthStep(value, contribution, monthly_return),
                contribution, monthly_return, months - 1)

\* Mutant: the value of a year floored at zero
McYearValueFloored(value, monthly_contribution, annual_contribution_increase_pct, annual_return, y) ==
  LET v == McMonths(value,
                    monthly_contribution_this_year(
                      monthly_contribution, annual_contribution_increase_pct, y),
                    MonthlyReturn(annual_return), MonthsPerYear)
  IN IF v < 0 THEN 0 ELSE v

\* The value after the 12 monthly steps of year y with the drawn annual return
McYearValue(value, monthly_contribution, annual_contribution_increase_pct, annual_return, y) ==
  McMonths(value,
           monthly_contribution_this_year(
             monthly_contribution, annual_contribution_increase_pct, y),
           MonthlyReturn(annual_return), MonthsPerYear)

\* Mutant: the current age compared with the target age, the year not added
WithinTargetAgeNoYear(current_age, target_age, y) ==
  \/ IsNone(target_age)
  \/ (Truthy(current_age) /\ Val(current_age) <= Val(target_age))

\* Mutant: a missing current age passes the target-age test
WithinTargetAgeUnknownAgePasses(current_age, target_age, y) ==
  \/ IsNone(target_age)
  \/ IsNone(current_age)
  \/ Val(current_age) + y <= Val(target_age)

\* target_age is None or (current_age and current_age + year <= target_age)
WithinTargetAge(current_age, target_age, y) ==
  \/ IsNone(target_age)
  \/ (Truthy(current_age) /\ Val(current_age) + y <= Val(target_age))

\* Mutant: the crossing dated at the start of its year
FiYearAfterYearBefore(fi, value, y, target_amount, target_age, current_age) ==
  IF Truthy(target_amount) /\ IsNone(fi)
     /\ value >= Val(target_amount)
     /\ WithinTargetAge(current_age, target_age, y)
  THEN Some(y - 1)
  ELSE fi

\* Mutant: every crossing recorded, a later one replacing the first
FiYearAfterOverwrite(fi, value, y, target_amount, target_age, current_age) ==
  IF Truthy(target_amount)
     /\ value >= Val(target_amount)
     /\ WithinTargetAge(current_age, target_age, y)
  THEN Some(y)
  ELSE fi

\* Mutant: a missing target treated as a target of 0 instead of skipping the check
FiYearAfterNoTargetCheck(fi, value, y, target_amount, target_age, current_age) ==
  IF IsNone(fi)
     /\ value >= (IF IsNone(target_amount) THEN 0 ELSE Val(target_amount))
     /\ WithinTargetAge(current_age, target_age, y)
  THEN Some(y)
  ELSE fi

\* if target_amount and fi_year is None: if portfolio_value >= target_amount: ...
FiYearAfter(fi, value, y, target_amount, target_age, current_age) ==
  IF Truthy(target_amount) /\ IsNone(fi)
     /\ value >= Val(target_amount)
     /\ WithinTargetAge(current_age, target_age, y)
  THEN Some(y)
  ELSE fi

\* Mutant: a trial without a crossing recorded as a crossing at year 0
FiYearsAfterTrialAlways(years_reached, fi) ==
  Append(years_reached, IF IsNone(fi) THEN 0 ELSE Val(fi))

\* Mutant: the FI year of a trial never handed on
FiYearsAfterTrialDropped(years_reached, fi) == years_reached

\* if fi_year is not None: fi_years.append(fi_year)
FiYearsAfterTrial(years_reached, fi) ==
  IF IsNone(fi) THEN years_reached ELSE Append(years_reached, Val(fi))

\* Mutant: the sample returned whatever return_all_paths says
ReturnedPathsSampleOnly(paths, return_all_paths) ==
  SubSeq(paths, 1, Min(SampleSize, Len(paths)))

\* Mutant: every path returned, the sample not cut to its size
ReturnedPathsNoLimit(paths, return_all_paths) == paths

\* all_paths[:10] unless return_all_paths
ReturnedPaths(paths, return_all_paths) ==
  IF return_all_paths THEN paths
  ELSE SubSeq(paths, 1, Min(SampleSize, Len(paths)))

----------------------------------------------------------------------------
(* calculate_percentile *)

\* Mutant: the values taken in trial order, not sorted
sortedNot(values) == values

\* Mutant: the first value left in place, only the rest sorted
sortedAfterFirst(values) ==
  IF values = <<>> THEN values
  ELSE <<Head(values)>> \o SortSeq(Tail(values), LAMBDA a, b: a < b)

\* Mutant: the values sorted from the largest down
sortedDescending(values) == SortSeq(values, LAMBDA a, b: a > b)

\* sorted(values)
sorted(values) == SortSeq(values, LAMBDA a, b: a < b)

\* Mutant: the rank counted from 1 (index floor(p/100 * n) - 1, not below 0)
PercentileIndexRankFromOne(n, percentile) ==
  IF (n * percentile) \div 100 = 0 THEN 0 ELSE Min((n * percentile) \div 100, n) - 1

\* index = int(len(sorted_values) * percentile / 100.0), clamped to the last index
PercentileIndex(n, percentile) == Min((n * percentile) \div 100, n - 1)

calculate_percentile(values, percentile) ==
  IF values = <<>> THEN 0
  ELSE sorted(values)[PercentileIndex(Len(values), percentile) + 1]

----------------------------------------------------------------------------
(* calculate_median_path, calculate_confidence_bands *)

\* Indices of the paths that have a point for year y (year < len(path))
\* [path[year]["portfolioValue"] for path in all_paths if year < len(path)]
YearValues(paths, y) ==
  LET with_year == SelectSeq(paths, LAMBDA p : y < Len(p))
  IN [i \in 1..Len(with_year) |-> with_year[i][y + 1].portfolioValue]

\* all_paths[0][year].get("age") if all_paths and year < len(all_paths[0]) else None
FirstPathAge(paths, y) ==
  IF paths # <<>> /\ y < Len(paths[1]) THEN paths[1][y + 1].age ELSE None

RECURSIVE PercentilePathFrom(_, _, _, _)
\* for year in range(years + 1): if year_values: append the rounded percentile
PercentilePathFrom(paths, years, percentile, y) ==
  IF y > years THEN <<>>
  ELSE LET year_values == YearValues(paths, y)
       IN (IF year_values # <<>>
           THEN <<[year |-> y, age |-> FirstPathAge(paths, y),
                   portfolioValue |-> Round2(calculate_percentile(year_values, percentile))]>>
           ELSE <<>>)
          \o PercentilePathFrom(paths, years, percentile, y + 1)

calculate_median_path(paths, years) ==
  IF paths = <<>> THEN <<>> ELSE PercentilePathFrom(paths, years, 50, 0)

\* returns (p10_path, p90_path)
calculate_confidence_bands(paths, years) ==
  IF paths = <<>> THEN << <<>>, <<>> >>
  ELSE <<PercentilePathFrom(paths, years, 10, 0), PercentilePathFrom(paths, years, 90, 0)>>

----------------------------------------------------------------------------
(* calculate_fi_estimate: returns (median_fi_year, median_fi_age) *)

calculate_fi_estimate(years_reached, current_age, current_year) ==
  IF years_reached = <<>> THEN <<None, None>>
  ELSE LET median_fi_year_offset == calculate_percentile(years_reached, 50)
       IN <<Some(current_year + median_fi_year_offset),
            IF Truthy(current_age)
            THEN Some(Val(current_age) + median_fi_year_offset)
            ELSE None>>

----------------------------------------------------------------------------
(* calculate_tax_implications *)

\* portfolio_value * (withdrawal_rate_pct / 100.0)
GrossWithdrawal(value, withdrawal_rate_pct) ==
  MulDivRound(value, withdrawal_rate_pct, 100)

\* Mutant: the rate taken as a fraction, not divided by 100
TaxAmountFraction(gross, effective_tax_rate_pct) ==
  MulDivRound(gross, effective_tax_rate_pct, TaxScale)

\* annual_withdrawal_gross * (effective_tax_rate_pct / 100.0)
TaxAmount(gross, effective_tax_rate_pct) ==
  MulDivRound(gross, effective_tax_rate_pct, 100 * TaxScale)

calculate_tax_implications(value, withdrawal_rate_pct, effective_tax_rate_pct) ==
  LET annual_withdrawal_gross == GrossWithdrawal(value, withdrawal_rate_pct)
      tax_amount == TaxAmount(annual_withdrawal_gross, effective_tax_rate_pct)
      annual_withdrawal_net == annual_withdrawal_gross - tax_amount
  IN [grossWithdrawal |-> Round2(annual_withdrawal_gross),
      taxAmount |-> Round2(tax_amount),
      netWithdrawal |-> Round2(annual_withdrawal_net),
      withdrawalRatePct |-> withdrawal_rate_pct,
      taxRatePct |-> effective_tax_rate_pct]

----------------------------------------------------------------------------
(* ProjectionService.calculate_projection: the summary *)

\* Mutant: the comparison inverted (val <= target, short of it, counted as a hit)
CountBelow(values, target) == Len(SelectSeq(values, LAMBDA val : val <= target))

\* sum(1 for val in ending_values if val >= target_amount)
CountAtLeast(values, target) == Len(SelectSeq(values, LAMBDA val : val >= target))

\* round(x, 1) on a probability
Round1(p) == (ProbScale \div 10) * RoundHalfEven(p, ProbScale \div 10)

\* Mutant: a target amount of 0 counted as a target
ProbabilityHittingTargetOfZero(values, target_amount) ==
  IF ~IsNone(target_amount)
  THEN IF values # <<>>
       THEN Some(RoundHalfEven(CountAtLeast(values, Val(target_amount)) * 100 * ProbScale, Len(values)))
       ELSE Some(0)
  ELSE None

\* probability_hitting_target, before the summary rounds it
ProbabilityHittingTarget(values, target_amount) ==
  IF Truthy(target_amount)
  THEN IF values # <<>>
       THEN Some(RoundHalfEven(CountAtLeast(values, Val(target_amount)) * 100 * ProbScale, Len(values)))
       ELSE Some(0)
  ELSE None

\* final_value = median_ending if median_ending >= target_amount else target_amount
FinalValue(median_ending, target_amount) ==
  IF median_ending >= target_amount THEN median_ending ELSE target_amount

\* tax_info: computed only if target_amount and effective_tax_rate_pct > 0
TaxInfo(median_ending, target_amount, effective_tax_rate_pct) ==
  IF Truthy(target_amount) /\ effective_tax_rate_pct > 0
  THEN Some(calculate_tax_implications(
              FinalValue(median_ending, Val(target_amount)),
              WithdrawalRatePct, effective_tax_rate_pct))
  ELSE None

Summary(values, years_reached, r) ==
  LET median_ending == calculate_percentile(values, 50)
      p10_ending == calculate_percentile(values, 10)
      p90_ending == calculate_percentile(values, 90)
      probability_hitting_target == ProbabilityHittingTarget(values, r.targetAmount)
      fi == calculate_fi_estimate(years_reached, r.currentAge, CurrentCalendarYear)
  IN [medianEndingValue |-> Round2(median_ending),
      p10EndingValue |-> Round2(p10_ending),
      p90EndingValue |-> Round2(p90_ending),
      probabilityOfHittingTarget |->
        IF probability_hitting_target # None
        THEN Some(Round1(Val(probability_hitting_target))) ELSE None,
      estimatedFIYear |-> fi[1],
      estimatedFIAge |-> fi[2],
      taxInfo |-> TaxInfo(median_ending, r.targetAmount, r.effectiveTaxRatePct)]

----------------------------------------------------------------------------
(* The requests the model explores.  Money is in 1/MoneyScale, rates in     *)
(* 1/RateScale, the tax rate in 1/TaxScale percent.                        *)

\* (currentValue, monthlyContribution, annualContributionIncreasePct, expectedAnnualReturnPct)
Profiles ==
  { \* 200.00, no contribution, 12% return
    <<200 * MoneyScale, 0, 0, 120>>,
    \* 100.007, 10.00 a month growing 10% a year, 12% return
    <<100 * MoneyScale + 700, 10 * MoneyScale, 100, 120>>,
    \* 200.00, 10.00 a month, no return
    <<200 * MoneyScale, 10 * MoneyScale, 0, 0>>,
    \* 100.007, flat
    <<100 * MoneyScale + 700, 0, 0, 0>> }

\* The profiles explored with a positive volatility
StochasticProfiles == { p \in Profiles : p[4] > 0 }

\* 210.00, no contribution, no mean return: with a volatility of 12% the value
\* is above 230.00 after a good year and below it again after a bad one
ReversalProfiles == { <<210 * MoneyScale, 0, 0, 0>> }

\* One cent, no contribution, 12% return: a year's growth is below a cent
SmallValueProfiles == { <<MoneyScale \div 100, 0, 0, 120>> }

\* (currentAge, targetAge)
AgeCases ==
  { <<None, None>>, <<Some(30), None>>, <<Some(30), Some(31)>>,
    <<None, Some(31)>>, <<Some(0), None>>, <<Some(0), Some(31)>> }

\* (targetAmount, effectiveTaxRatePct)
TargetCases ==
  { <<None, 0>>, <<None, 250>>, <<Some(0), 250>>,
    <<Some(230 * MoneyScale), 0>>, <<Some(230 * MoneyScale), 250>>,
    <<Some(230 * MoneyScale), 5>> }

\* annualVolatilityPct of the stochastic requests: 12%
Volatilities == {120}

Request(p, vol, y, ages, tgt, n) ==
  [currentValue |-> p[1], monthlyContribution |-> p[2],
   annualContributionIncreasePct |-> p[3], expectedAnnualReturnPct |-> p[4],
   annualVolatilityPct |-> vol, years |-> y,
   currentAge |-> ages[1], targetAge |-> ages[2],
   targetAmount |-> tgt[1], effectiveTaxRatePct |-> tgt[2],
   numSimulations |-> n]

\* Zero volatility: every draw is the mean, so long runs stay small
DeterministicRequests ==
  { Request(p, 0, y, a, t, n) :
      p \in Profiles, y \in 1..MaxYears, a \in AgeCases, t \in TargetCases,
      n \in (1..MaxSims) \cup {SampleSize + 1} }

\* Positive volatility: at most MaxDraws draws in each of the two runs
StochasticRequests ==
  { r \in { Request(p, vol, y, a, t, n) :
              p \in StochasticProfiles, vol \in Volatilities, y \in 1..MaxDraws,
              a \in AgeCases, t \in TargetCases, n \in 1..MaxDraws } :
      r.years * r.numSimulations <= MaxDraws }

\* Zero volatility, a starting value of one cent
SmallValueRequests ==
  { Request(p, 0, y, <<None, None>>, <<None, 0>>, 1) :
      p \in SmallValueProfiles, y \in 1..MaxYears }

\* 100.00, 10.00 a month growing 10% a year, no return
FlatReturnProfiles == { <<100 * MoneyScale, 10 * MoneyScale, 100, 0>> }

\* Zero volatility and no return, the contribution growing from year to year
FlatReturnRequests ==
  { Request(p, 0, y, <<None, None>>, <<None, 0>>, 1) :
      p \in FlatReturnProfiles, y \in 1..MaxYears }

\* 200.00, 10.00 a month, a mean return of -1320%: with a volatility of 60% the
\* draws are -1380% and -1260%, monthly factors of -0.15 and -0.05
NegativeFactorProfiles == { <<200 * MoneyScale, 10 * MoneyScale, 0, -13200>> }

\* Draws below -1200% a year: the monthly factor 1 + draw / 12 is negative
NegativeFactorRequests ==
  { Request(p, 600, y, <<None, None>>, <<None, 0>>, 1) :
      p \in NegativeFactorProfiles, y \in 1..2 }

\* A horizon of 0 years, which only a direct caller can ask for
ZeroYearRequests ==
  { Request(p, 0, 0, a, t, 1) :
      p \in Profiles, a \in {<<None, None>>, <<Some(30), None>>},
      t \in {<<None, 0>>, <<Some(150 * MoneyScale), 0>>} }

\* A target of 150.00 that the starting value of 200.00 already exceeds
TargetMetAtStartRequests ==
  { Request(<<200 * MoneyScale, 0, 0, 120>>, 0, y, a, <<Some(150 * MoneyScale), 0>>, 1) :
      y \in 1..MaxYears, a \in {<<None, None>>, <<Some(30), Some(31)>>} }

\* Positive volatility around a target of 230.00, with and without an age cap
ReversalRequests ==
  { r \in { Request(p, vol, y, a, <<Some(230 * MoneyScale), 0>>, n) :
              p \in ReversalProfiles, vol \in Volatilities, y \in 1..MaxDraws,
              a \in {<<None, None>>, <<Some(30), Some(31)>>}, n \in 1..MaxDraws } :
      r.years * r.numSimulations <= MaxDraws }

Requests ==
  DeterministicRequests \cup StochasticRequests \cup SmallValueRequests
    \cup FlatReturnRequests \cup ReversalRequests \cup NegativeFactorRequests
    \cup ZeroYearRequests \cup TargetMetAtStartRequests

----------------------------------------------------------------------------
(* POST /projections: calculate_projections, the caller of the engine *)

\* if input_data.effectiveTaxRatePct < 0 or input_data.effectiveTaxRatePct > 60
MaxTaxRatePct == 60 * TaxScale

\* if input_data.expectedAnnualReturnPct > 0.5
HighReturn == RateScale \div 2

\* Mutant: the upper limit of the tax rate taken as 0.6
HttpValidationErrorTaxFraction(r) ==
  IF r.monthlyContribution < 0 THEN Some("Monthly contribution cannot be negative")
  ELSE IF r.annualVolatilityPct < 0 THEN Some("Volatility cannot be negative")
  ELSE IF r.years < 1 THEN Some("Projection horizon must be at least 1 year")
  ELSE IF r.effectiveTaxRatePct < 0 \/ r.effectiveTaxRatePct > (6 * TaxScale) \div 10
       THEN Some("Tax rate must be between 0% and 60%")
  ELSE None

\* Mutant: a return above 0.5 rejected instead of logged
HttpValidationErrorHighReturn(r) ==
  IF r.monthlyContribution < 0 THEN Some("Monthly contribution cannot be negative")
  ELSE IF r.annualVolatilityPct < 0 THEN Some("Volatility cannot be negative")
  ELSE IF r.years < 1 THEN Some("Projection horizon must be at least 1 year")
  ELSE IF r.effectiveTaxRatePct < 0 \/ r.effectiveTaxRatePct > MaxTaxRatePct
       THEN Some("Tax rate must be between 0% and 60%")
  ELSE IF r.expectedAnnualReturnPct > HighReturn THEN Some("Very high expected return")
  ELSE None

\* The validation of the input: the detail of the first HTTPException(400), or None
HttpValidationError(r) ==
  IF r.monthlyContribution < 0 THEN Some("Monthly contribution cannot be negative")
  ELSE IF r.annualVolatilityPct < 0 THEN Some("Volatility cannot be negative")
  ELSE IF r.years < 1 THEN Some("Projection horizon must be at least 1 year")
  ELSE IF r.effectiveTaxRatePct < 0 \/ r.effectiveTaxRatePct > MaxTaxRatePct
       THEN Some("Tax rate must be between 0% and 60%")
  ELSE None

\* An input of the endpoint: the engine runs it with its default num_simulations
HttpInput(p, vol, y, ages, tgt) == Request(p, vol, y, ages, tgt, DefaultNumSimulations)

\* Inputs every check accepts: (return, tax rate) = (0.6, 25) and (0.5, 60)
HttpValidInputs ==
  { HttpInput(<<200 * MoneyScale, 10 * MoneyScale, 0, HighReturn + 100>>, 0, 1,
              <<Some(30), None>>, <<Some(220 * MoneyScale), 25 * TaxScale>>),
    HttpInput(<<200 * MoneyScale, 0, 0, HighReturn>>, 0, 1, <<None, None>>,
              <<Some(220 * MoneyScale), MaxTaxRatePct>>) }

\* Inputs one check or more rejects
HttpInvalidInputs ==
  { HttpInput(<<200 * MoneyScale, -10 * MoneyScale, 0, 120>>, 0, 1, <<None, None>>, <<None, 0>>),
    HttpInput(<<200 * MoneyScale, 0, 0, 120>>, -120, 1, <<None, None>>, <<None, 0>>),
    HttpInput(<<200 * MoneyScale, 0, 0, 120>>, 0, 0, <<None, None>>, <<None, 0>>),
    HttpInput(<<200 * MoneyScale, 0, 0, 120>>, 0, -1, <<None, None>>, <<None, 0>>),
    HttpInput(<<200 * MoneyScale, 0, 0, 120>>, 0, 1, <<None, None>>, <<None, -1>>),
    HttpInput(<<200 * MoneyScale, 0, 0, 120>>, 0, 1, <<None, None>>, <<None, MaxTaxRatePct + 1>>),
    HttpInput(<<200 * MoneyScale, 0, 0, 600>>, -120, 0, <<None, None>>, <<None, MaxTaxRatePct + 1>>) }

HttpInputs == HttpValidInputs \cup HttpInvalidInputs

\* No response yet; status 400 carries a detail, status 200 the result as its body
NoResponse == [status |-> 0, detail |-> "", body |-> <<>>]

----------------------------------------------------------------------------
(* The state machine: one call of ProjectionService.calculate_projection *)

NoResult == <<>>

Init ==
  /\ caller \in {"direct", "http"}
  /\ req \in (IF caller = "http" THEN HttpInputs ELSE Requests)
  /\ pc = (IF caller = "http" THEN "http" ELSE "det")
  /\ trial_values = <<>>
  /\ trial_draws = <<>>
  /\ response = NoResponse
  /\ log = <<>>
  /\ deterministic_path = <<>>
  /\ run = 1
  /\ sim = 0
  /\ year = -1
  /\ portfolio_value = 0
  /\ path = <<>>
  /\ fi_year = None
  /\ mc_all_paths = <<>>
  /\ mc_ending_values = <<>>
  /\ mc_fi_years = <<>>
  /\ sample_paths = <<>>
  /\ ending_values = <<>>
  /\ fi_years = <<>>
  /\ all_paths = <<>>
  /\ result = NoResult

EngineVars ==
  <<deterministic_path, run, sim, year, portfolio_value, path, fi_year,
    mc_all_paths, mc_ending_values, mc_fi_years, sample_paths, ending_values,
    fi_years, all_paths, result, trial_values, trial_draws>>

\* raise HTTPException(status_code=400, detail=...): the engine is not called
HttpReject ==
  /\ pc = "http"
  /\ HttpValidationError(req) # None
  /\ response' = [status |-> 400, detail |-> Val(HttpValidationError(req)), body |-> <<>>]
  /\ pc' = "rejected"
  /\ UNCHANGED <<req, caller, log>>
  /\ UNCHANGED EngineVars

\* The input passes: the warning for a return above 0.5, then the engine is called
HttpCall ==
  /\ pc = "http"
  /\ HttpValidationError(req) = None
  /\ log' = IF req.expectedAnnualReturnPct > HighReturn
            THEN Append(log, "Very high expected return")
            ELSE log
  /\ pc' = "det"
  /\ UNCHANGED <<req, caller, response>>
  /\ UNCHANGED EngineVars

\* return result
HttpReturn ==
  /\ pc = "done"
  /\ caller = "http"
  /\ response = NoResponse
  /\ response' = [status |-> 200, detail |-> "", body |-> result]
  /\ UNCHANGED <<req, pc, caller, log>>
  /\ UNCHANGED EngineVars

\* deterministic_path = calculate_deterministic_projection(...)
Deterministic ==
  /\ pc = "det"
  /\ deterministic_path' = calculate_deterministic_projection(
         req.currentValue, req.monthlyContribution,
         req.annualContributionIncreasePct, req.expectedAnnualReturnPct,
         req.years, req.currentAge)
  /\ pc' = "mc"
  /\ UNCHANGED <<req, run, sim, year, portfolio_value, path, fi_year,
                 mc_all_paths, mc_ending_values, mc_fi_years, sample_paths,
                 ending_values, fi_years, all_paths, result>>
  /\ UNCHANGED <<trial_values, trial_draws, caller, response, log>>

\* for sim in range(num_simulations): the start of a trial and its year 0
McBeginTrial ==
  /\ pc = "mc"
  /\ year = -1
  /\ sim < req.numSimulations
  /\ portfolio_value' = YearZeroValue(req.currentValue)
  /\ path' = <<PathPoint(0, req.currentAge, YearZeroValue(req.currentValue))>>
  /\ fi_year' = None
  /\ year' = 1
  /\ UNCHANGED <<req, pc, deterministic_path, run, sim, mc_all_paths,
                 mc_ending_values, mc_fi_years, sample_paths, ending_values,
                 fi_years, all_paths, result>>
  /\ trial_values' = <<YearZeroValue(req.currentValue)>>
  /\ trial_draws' = <<>>
  /\ UNCHANGED <<caller, response, log>>

\* One year 1..years of a trial: the draw, 12 months, the FI check, the point
McYear ==
  /\ pc = "mc"
  /\ year >= 1
  /\ year <= LastYear(req.years)
  /\ \E z \in GaussDraws :
       LET annual_return == gauss(req.expectedAnnualReturnPct, req.annualVolatilityPct, z)
           v == McYearValue(portfolio_value, req.monthlyContribution,
                            req.annualContributionIncreasePct, annual_return, year)
       IN /\ portfolio_value' = v
          /\ fi_year' = FiYearAfter(fi_year, v, year, req.targetAmount,
                                    req.targetAge, req.currentAge)
          /\ path' = Append(path, PathPoint(year, req.currentAge, Round2(v)))
          /\ trial_values' = Append(trial_values, v)
          /\ trial_draws' = Append(trial_draws, annual_return)
  /\ year' = year + 1
  /\ UNCHANGED <<req, pc, deterministic_path, run, sim, mc_all_paths,
                 mc_ending_values, mc_fi_years, sample_paths, ending_values,
                 fi_years, all_paths, result>>
  /\ UNCHANGED <<caller, response, log>>

\* The end of a trial: all_paths.append, ending_values.append, fi_years.append
McEndTrial ==
  /\ pc = "mc"
  /\ year > LastYear(req.years)
  /\ mc_all_paths' = Append(mc_all_paths, path)
  /\ mc_ending_values' = Append(mc_ending_values, portfolio_value)
  /\ mc_fi_years' = FiYearsAfterTrial(mc_fi_years, fi_year)
  /\ sim' = sim + 1
  /\ year' = -1
  /\ portfolio_value' = 0
  /\ path' = <<>>
  /\ fi_year' = None
  /\ UNCHANGED <<req, pc, deterministic_path, run, sample_paths,
                 ending_values, fi_years, all_paths, result>>
  /\ trial_values' = <<>>
  /\ trial_draws' = <<>>
  /\ UNCHANGED <<caller, response, log>>

\* The first call returns: sample_paths, ending_values, fi_years = ...
McReturnFirst ==
  /\ pc = "mc"
  /\ run = 1
  /\ year = -1
  /\ sim >= req.numSimulations
  /\ sample_paths' = ReturnedPaths(mc_all_paths, FALSE)
  /\ ending_values' = mc_ending_values
  /\ fi_years' = mc_fi_years
  /\ run' = 2
  /\ sim' = 0
  /\ mc_all_paths' = <<>>
  /\ mc_ending_values' = <<>>
  /\ mc_fi_years' = <<>>
  /\ UNCHANGED <<req, pc, deterministic_path, year, portfolio_value, path,
                 fi_year, all_paths, result>>
  /\ UNCHANGED <<trial_values, trial_draws, caller, response, log>>

\* The second call returns: all_paths, _, _ = ...
McReturnSecond ==
  /\ pc = "mc"
  /\ run = 2
  /\ year = -1
  /\ sim >= req.numSimulations
  /\ all_paths' = ReturnedPaths(mc_all_paths, TRUE)
  /\ pc' = "agg"
  /\ sim' = 0
  /\ mc_all_paths' = <<>>
  /\ mc_ending_values' = <<>>
  /\ mc_fi_years' = <<>>
  /\ UNCHANGED <<req, deterministic_path, run, year, portfolio_value, path,
                 fi_year, sample_paths, ending_values, fi_years, result>>
  /\ UNCHANGED <<trial_values, trial_draws, caller, response, log>>

\* The statistics, the percentile paths, the summary and the returned dictionary
Aggregate ==
  /\ pc = "agg"
  /\ LET bands == calculate_confidence_bands(all_paths, req.years)
     IN result' = [deterministicPath |-> deterministic_path,
                   monteCarloPathsSample |-> sample_paths,
                   medianPath |-> calculate_median_path(all_paths, req.years),
                   p10Path |-> bands[1],
                   p90Path |-> bands[2],
                   summary |-> Summary(ending_values, fi_years, req)]
  /\ pc' = "done"
  /\ UNCHANGED <<req, deterministic_path, run, sim, year, portfolio_value,
                 path, fi_year, mc_all_paths, mc_ending_values, mc_fi_years,
                 sample_paths, ending_values, fi_years, all_paths>>
  /\ UNCHANGED <<trial_values, trial_draws, caller, response, log>>

Next ==
  \/ HttpReject
  \/ HttpCall
  \/ HttpReturn
  \/ Deterministic
  \/ McBeginTrial
  \/ McYear
  \/ McEndTrial
  \/ McReturnFirst
  \/ McReturnSecond
  \/ Aggregate

Spec == Init /\ [][Next]_vars

----------------------------------------------------------------------------
(* Properties *)

Abs(x) == IF x < 0 THEN -x ELSE x

Done == pc = "done"

\* A path with years + 1 points whose year fields are 0, 1, ..., years
WellFormedPath(p, years) ==
  /\ Len(p) = years + 1
  /\ \A i \in 1..Len(p) : p[i].year = i - 1

\* Every element of a sequence of paths satisfies P
AllPaths(paths, P(_)) == \A i \in 1..Len(paths) : P(paths[i])

(* C1: for years >= 1 and numSimulations >= 1 the deterministic path, every
   path of monteCarloPathsSample and the median, p10 and p90 paths of the
   result each have exactly years + 1 points with year fields 0, 1, ...,
   years in ascending order and without gaps. *)
C1_PathLengths ==
  (Done /\ req.years >= 1 /\ req.numSimulations >= 1) =>
    /\ WellFormedPath(result.deterministicPath, req.years)
    /\ AllPaths(result.monteCarloPathsSample, LAMBDA p : WellFormedPath(p, req.years))
    /\ WellFormedPath(result.medianPath, req.years)
    /\ WellFormedPath(result.p10Path, req.years)
    /\ WellFormedPath(result.p90Path, req.years)

C1_Witness ==
  /\ Done
  /\ req.years = MaxYears
  /\ Len(result.monteCarloPathsSample) = SampleSize
  /\ Len(result.medianPath) = MaxYears + 1

(* C2: point 0 of the deterministic path and of every Monte Carlo path (the
   trial being built, the paths collected by either run, the sample and the
   paths the percentiles are taken over) carries exactly the request's
   currentValue: nothing is added and nothing is rounded at year 0. *)
C2_YearZeroInvariance ==
  LET AtStart(p) == p # <<>> => p[1].portfolioValue = req.currentValue
  IN /\ AtStart(deterministic_path)
     /\ (pc \in {"mc", "agg", "done"} => deterministic_path # <<>>)
     /\ AtStart(path)
     /\ AllPaths(mc_all_paths, AtStart)
     /\ AllPaths(sample_paths, AtStart)
     /\ AllPaths(all_paths, AtStart)
     /\ (Done => /\ AtStart(result.deterministicPath)
                 /\ AllPaths(result.monteCarloPathsSample, AtStart))

C2_Witness ==
  /\ Done
  /\ Round2(req.currentValue) # req.currentValue
  /\ result.deterministicPath[1].portfolioValue = req.currentValue
  /\ Len(result.monteCarloPathsSample) >= 2
  /\ result.monteCarloPathsSample[2][1].portfolioValue = req.currentValue

(* C3: at every year index i in 0..years the result has
   p10Path[i].portfolioValue <= medianPath[i].portfolioValue <=
   p90Path[i].portfolioValue, whatever returns the trials drew. *)
C3_PercentileOrdering ==
  Done =>
    \A i \in 1..(req.years + 1) :
      /\ i <= Len(result.p10Path) /\ i <= Len(result.medianPath)
      /\ i <= Len(result.p90Path)
      /\ result.p10Path[i].portfolioValue <= result.medianPath[i].portfolioValue
      /\ result.medianPath[i].portfolioValue <= result.p90Path[i].portfolioValue

C3_Witness ==
  /\ Done
  /\ req.numSimulations >= 3
  /\ all_paths[1][2].portfolioValue > all_paths[2][2].portfolioValue
  /\ result.p10Path[2].portfolioValue < result.p90Path[2].portfolioValue

(* C4: with annualVolatilityPct = 0 every path a Monte Carlo run produces is
   point for point (year, age, portfolioValue) the deterministic path of the
   same request. *)
C4_ZeroVolatility ==
  (req.annualVolatilityPct = 0 /\ pc # "det") =>
    /\ AllPaths(mc_all_paths, LAMBDA p : p = deterministic_path)
    /\ AllPaths(sample_paths, LAMBDA p : p = deterministic_path)
    /\ AllPaths(all_paths, LAMBDA p : p = deterministic_path)
    /\ (year > LastYear(req.years) => path = deterministic_path)

C4_Witness ==
  /\ Done
  /\ req.annualVolatilityPct = 0
  /\ req.expectedAnnualReturnPct > 0
  /\ req.monthlyContribution > 0
  /\ req.years = MaxYears
  /\ Len(all_paths) >= 2
  /\ Len(sample_paths) >= 2
  /\ all_paths[2] = deterministic_path

\* Number of elements of values that satisfy P
Count(values, P(_)) == Cardinality({ i \in 1..Len(values) : P(values[i]) })

\* Trials of the first run whose ending value reached the target
Hits == Count(ending_values, LAMBDA v : v >= Val(req.targetAmount))

\* The first run's ending values, rounded as the summary rounds them
RoundedEndings == { Round2(ending_values[i]) : i \in 1..Len(ending_values) }

(* C5 as stated: probabilityOfHittingTarget, when not null, lies in [0, 100]
   and equals 100 * (trials whose ending value >= targetAmount) /
   numSimulations, the ending values being those the summary's ending-value
   percentiles are computed from. *)
C5_ProbabilityExact ==
  (Done /\ result.summary.probabilityOfHittingTarget # None) =>
    LET prob == Val(result.summary.probabilityOfHittingTarget)
    IN /\ 0 <= prob /\ prob <= 100 * ProbScale
       /\ prob * req.numSimulations = 100 * ProbScale * Hits
       /\ result.summary.medianEndingValue \in RoundedEndings

(* C5 amended: probabilityOfHittingTarget, when not null, lies in [0, 100],
   is a multiple of 0.1 and is 100 * hits / numSimulations rounded to one
   decimal (within 0.05 of it), the hits counted over the ending values of
   the same trials (the first run) that the summary's ending-value
   percentiles are computed from. *)
C5_ProbabilityRounded ==
  (Done /\ result.summary.probabilityOfHittingTarget # None) =>
    LET prob == Val(result.summary.probabilityOfHittingTarget)
    IN /\ 0 <= prob /\ prob <= 100 * ProbScale
       /\ prob % (ProbScale \div 10) = 0
       /\ 20 * Abs(prob * req.numSimulations - 100 * ProbScale * Hits)
            <= ProbScale * req.numSimulations
       /\ Len(ending_values) = req.numSimulations
       /\ result.summary.medianEndingValue \in RoundedEndings
       /\ result.summary.p10EndingValue \in RoundedEndings
       /\ result.summary.p90EndingValue \in RoundedEndings

C5_Witness ==
  /\ Done
  /\ result.summary.probabilityOfHittingTarget # None
  /\ req.numSimulations = 3
  /\ Hits = 1
  /\ Val(result.summary.probabilityOfHittingTarget) % ProbScale # 0

\* One cent, the resolution of the rounded outputs
Cent == MoneyScale \div 100

\* The median of the first run's ending values, not rounded
MedianEnding == calculate_percentile(ending_values, 50)

\* The value the withdrawal is taken from, by the rule of the specification
ExpectedFinalValue ==
  IF MedianEnding >= Val(req.targetAmount) THEN MedianEnding ELSE Val(req.targetAmount)

(* C6 as stated: when taxInfo is non-null, effectiveTaxRatePct is a fraction
   in [0, 0.6] and taxAmount = grossWithdrawal * effectiveTaxRatePct,
   netWithdrawal = grossWithdrawal - taxAmount and grossWithdrawal =
   finalValue * 0.04, each up to a cent of rounding. *)
C6_TaxRateFraction ==
  (Done /\ result.summary.taxInfo # None) =>
    LET t == Val(result.summary.taxInfo)
    IN /\ 0 <= req.effectiveTaxRatePct
       /\ 10 * req.effectiveTaxRatePct <= 6 * TaxScale
       /\ Abs(TaxScale * t.taxAmount - t.grossWithdrawal * req.effectiveTaxRatePct)
            <= TaxScale * Cent
       /\ Abs(t.netWithdrawal - (t.grossWithdrawal - t.taxAmount)) <= Cent
       /\ Abs(100 * t.grossWithdrawal - 4 * ExpectedFinalValue) <= 100 * Cent

(* C6 amended: when taxInfo is non-null, effectiveTaxRatePct is a percentage
   in (0, 60] and taxAmount = grossWithdrawal * effectiveTaxRatePct / 100,
   netWithdrawal = grossWithdrawal - taxAmount and grossWithdrawal =
   finalValue * 0.04, each up to a cent of rounding. *)
C6_TaxRatePercent ==
  (Done /\ result.summary.taxInfo # None) =>
    LET t == Val(result.summary.taxInfo)
    IN /\ 0 < req.effectiveTaxRatePct
       /\ req.effectiveTaxRatePct <= 60 * TaxScale
       /\ t.taxRatePct = req.effectiveTaxRatePct
       /\ Abs(100 * TaxScale * t.taxAmount - t.grossWithdrawal * req.effectiveTaxRatePct)
            <= 100 * TaxScale * Cent
       /\ Abs(t.netWithdrawal - (t.grossWithdrawal - t.taxAmount)) <= Cent
       /\ Abs(100 * t.grossWithdrawal - 4 * ExpectedFinalValue) <= 100 * Cent

C6_Witness ==
  /\ Done
  /\ result.summary.taxInfo # None
  /\ req.effectiveTaxRatePct = 25 * TaxScale
  /\ Val(result.summary.taxInfo).taxAmount > 0
  /\ Val(result.summary.taxInfo).netWithdrawal > Val(result.summary.taxInfo).taxAmount
  /\ MedianEnding > Val(req.targetAmount)

(* C7: taxInfo is non-null if and only if targetAmount is set and
   effectiveTaxRatePct > 0; when non-null it is computed with the fixed 4%
   withdrawal rate on finalValue = medianEndingValue if medianEndingValue >=
   targetAmount, otherwise targetAmount, so finalValue >= targetAmount. *)
C7_TaxInfoIffTargetSet ==
  Done =>
    /\ (result.summary.taxInfo # None) <=>
         (req.targetAmount # None /\ req.effectiveTaxRatePct > 0)
    /\ result.summary.taxInfo # None =>
         LET t == Val(result.summary.taxInfo)
         IN /\ t.withdrawalRatePct = 4
            /\ ExpectedFinalValue >= Val(req.targetAmount)
            /\ Abs(100 * t.grossWithdrawal - 4 * ExpectedFinalValue) <= 100 * Cent

(* C8: when targetAmount is null no trial ever records an FI year (the
   FI-year list of either run stays empty) and the result has
   estimatedFIYear, estimatedFIAge and probabilityOfHittingTarget all null,
   for any draws and any currentAge and targetAge. *)
C8_NoTargetNoFI ==
  req.targetAmount = None =>
    /\ fi_year = None
    /\ mc_fi_years = <<>>
    /\ fi_years = <<>>
    /\ Done => /\ result.summary.estimatedFIYear = None
               /\ result.summary.estimatedFIAge = None
               /\ result.summary.probabilityOfHittingTarget = None

C8_Witness ==
  /\ Done
  /\ req.targetAmount = None
  /\ req.currentAge = Some(30)
  /\ req.annualVolatilityPct > 0
  /\ \E i \in 1..Len(ending_values) : ending_values[i] > req.currentValue
  /\ result.summary.estimatedFIYear = None

\* The percentiles the claim about calculate_percentile is checked for
PercentileSamples == {0, 1, 10, 25, 33, 50, 67, 75, 90, 99, 100}

\* v is the element at index k (from 0) of the ascending order of values
IsAtSortedIndex(values, k, v) ==
  /\ \E i \in 1..Len(values) : values[i] = v
  /\ Count(values, LAMBDA x : x < v) <= k
  /\ Count(values, LAMBDA x : x <= v) > k

\* floor(p / 100 * n) clamped to n - 1
NearestRankIndex(n, p) == IF (p * n) \div 100 > n - 1 THEN n - 1 ELSE (p * n) \div 100

OneToHundred == [i \in 1..100 |-> i]
TensToThousand == [i \in 1..100 |-> 10 * i]
\* 100 values in descending order, n = 100
HundredDescending == [i \in 1..100 |-> 101 - i]

\* The worked examples of the specification
PercentileExamples ==
  /\ calculate_percentile(OneToHundred, 10) = 11
  /\ calculate_percentile(HundredDescending, 10) = 11
  /\ calculate_percentile(TensToThousand, 50) = TensToThousand[50 + 1]

(* C9: for a non-empty list of n values and p in [0, 100],
   calculate_percentile returns the element at index
   min(floor(p/100 * n), n - 1) of the ascending-sorted list (nearest rank,
   an element of the list, never interpolated); percentile 10 of [1..100]
   is 11 and percentile 50 of [10, 20, ..., 1000] is the element at sorted
   index 50. The lists change only between trials (year = -1), so every
   list the program ever holds is looked at there. *)
C9_NearestRank ==
  /\ PercentileExamples
  /\ \A values \in {ending_values, mc_ending_values, fi_years} :
       (year = -1 /\ values # <<>>) =>
         \A p \in PercentileSamples :
           IsAtSortedIndex(values, NearestRankIndex(Len(values), p),
                           calculate_percentile(values, p))

C9_Witness ==
  /\ Done
  /\ Len(ending_values) >= 3
  /\ ending_values[1] > ending_values[2]
  /\ calculate_percentile(ending_values, 100) = ending_values[1]
  /\ calculate_percentile(ending_values, 50) = ending_values[2]

(* C10: the ending-value summary, the FI statistics and the median, p10 and
   p90 paths are derived from one population of numSimulations trials, so
   medianPath[years].portfolioValue = summary.medianEndingValue,
   p10Path[years].portfolioValue = summary.p10EndingValue and
   p90Path[years].portfolioValue = summary.p90EndingValue for every outcome
   of the draws. *)
C10_OnePopulation ==
  Done =>
    /\ result.medianPath[req.years + 1].portfolioValue = result.summary.medianEndingValue
    /\ result.p10Path[req.years + 1].portfolioValue = result.summary.p10EndingValue
    /\ result.p90Path[req.years + 1].portfolioValue = result.summary.p90EndingValue


\* The portfolio values of all the paths the percentile paths are taken over,
\* at year y, in cents as every value of a percentile path is (rounding is
\* monotone, so the rounded percentile is the percentile of the rounded values)
CrossSection(y) == [i \in 1..Len(all_paths) |-> Round2(all_paths[i][y + 1].portfolioValue)]

(* C11: at each year index the values of medianPath, p10Path and p90Path are
   the 50th, 10th and 90th nearest-rank percentile of the cross-section, at
   that year, of the portfolio values of all numSimulations paths of a
   simulation run, not only of the at most 10 paths of
   monteCarloPathsSample; the percentile is recorded in cents. *)
C11_PercentilePathsOverAll ==
  Done =>
    /\ Len(all_paths) = req.numSimulations
    /\ \A y \in 0..req.years :
         LET k(p) == NearestRankIndex(req.numSimulations, p)
         IN /\ IsAtSortedIndex(CrossSection(y), k(50), result.medianPath[y + 1].portfolioValue)
            /\ IsAtSortedIndex(CrossSection(y), k(10), result.p10Path[y + 1].portfolioValue)
            /\ IsAtSortedIndex(CrossSection(y), k(90), result.p90Path[y + 1].portfolioValue)

C11_Witness ==
  /\ Done
  /\ req.numSimulations = SampleSize + 1
  /\ Len(result.monteCarloPathsSample) = SampleSize
  /\ Len(all_paths) = SampleSize + 1
  /\ req.years = MaxYears
  /\ result.medianPath[MaxYears + 1].portfolioValue = all_paths[SampleSize + 1][MaxYears + 1].portfolioValue

\* An ending value as the last point of its path shows it: in cents, except
\* at year 0, whose point carries the value as it is
RecordedAtHorizon(v) == IF req.years = 0 THEN v ELSE Round2(v)

\* The first call of run_monte_carlo_simulation has returned
FirstRunReturned == run = 2 \/ pc \in {"agg", "done"}

C12_SampleState ==
  FirstRunReturned =>
    /\ Len(sample_paths) = Min(SampleSize, req.numSimulations)
    /\ Len(sample_paths) <= SampleSize
    /\ \A i \in 1..Len(sample_paths) :
         /\ WellFormedPath(sample_paths[i], req.years)
         /\ sample_paths[i][req.years + 1].portfolioValue = RecordedAtHorizon(ending_values[i])
    /\ Done => result.monteCarloPathsSample = sample_paths

C12_SampleStep ==
  /\ (run = 1 /\ run' = 2) =>
       \A i \in 1..Len(sample_paths') : sample_paths'[i] = mc_all_paths[i]
  /\ FirstRunReturned => sample_paths' = sample_paths

(* C12: monteCarloPathsSample holds exactly min(10, numSimulations) paths,
   never more than 10, and each of them is one of the raw paths the call
   simulated (the first paths of the first run, in order), handed on
   unmodified. *)
C12_SampleOfRawPaths == []C12_SampleState /\ [][C12_SampleStep]_vars

C12_Witness ==
  /\ Done
  /\ req.numSimulations > SampleSize
  /\ Len(result.monteCarloPathsSample) = SampleSize
  /\ req.expectedAnnualReturnPct > 0


\* The running trial's value after year y has reached the target amount
Crossing(y) == trial_values[y + 1] >= Val(req.targetAmount)

\* The target-age cap lets year y count
CapAllows(y) ==
  \/ req.targetAge = None
  \/ (req.currentAge # None /\ Val(req.currentAge) + y <= Val(req.targetAge))

C13_RecordedIsFirst ==
  (pc = "mc" /\ year >= 1 /\ req.targetAmount # None) =>
    /\ Len(trial_values) = year
    /\ fi_year # None =>
         /\ Val(fi_year) \in 1..(year - 1)
         /\ Crossing(Val(fi_year))
         /\ CapAllows(Val(fi_year))
         /\ \A e \in 1..(Val(fi_year) - 1) : ~(Crossing(e) /\ CapAllows(e))
    /\ (fi_year = None /\ req.targetAge = None /\ Val(req.targetAmount) > 0) =>
         \A e \in 1..(year - 1) : ~Crossing(e)
    /\ Len(mc_fi_years) <= sim

C13_Step ==
  /\ (fi_year # None /\ fi_year' # fi_year) =>
       /\ sim' = sim + 1
       /\ fi_year' = None
       /\ mc_fi_years' = Append(mc_fi_years, Val(fi_year))
  /\ mc_fi_years' # mc_fi_years =>
       \/ mc_fi_years' = <<>>
       \/ /\ sim' = sim + 1
          /\ fi_year # None
          /\ mc_fi_years' = Append(mc_fi_years, Val(fi_year))

(* C13: in each trial with a target amount, the FI year recorded is the first
   year at which the trial's value is at least the target amount and the
   target-age cap lets the year count; once recorded it stays until the end
   of the trial, whether the value crosses again or falls below the target,
   and the trial adds at most one FI year, the recorded one, to the list.
   Without a target age, a trial with a positive target holds no FI year
   only while no year has reached the target. *)
C13_FirstCrossingOnly == []C13_RecordedIsFirst /\ [][C13_Step]_vars

\* Recorded at year 1, below the target again after year 2
C13_Witness ==
  /\ pc = "mc"
  /\ year = 3
  /\ fi_year = Some(1)
  /\ req.targetAmount # None
  /\ trial_values[2] >= Val(req.targetAmount)
  /\ trial_values[3] < Val(req.targetAmount)


\* The FI years held anywhere: by the running trial, by the run, by the caller
RecordedFiYears ==
  (IF fi_year = None THEN {} ELSE {Val(fi_year)})
    \cup { mc_fi_years[i] : i \in 1..Len(mc_fi_years) }
    \cup { fi_years[i] : i \in 1..Len(fi_years) }

\* The running trial first reached the target at year e, above the target age
FirstReachedTooOld(e) ==
  /\ Crossing(e)
  /\ \A b \in 1..(e - 1) : ~Crossing(b)
  /\ Val(req.currentAge) + e > Val(req.targetAge)

(* C14: when currentAge and targetAge are set, every FI year y recorded
   satisfies currentAge + y <= targetAge, and a trial whose value first
   reaches the target amount at an age above targetAge records no FI year;
   the estimated FI age, when there is one, is then at most targetAge. *)
C14_TargetAgeCap ==
  (req.currentAge # None /\ req.targetAge # None) =>
    /\ \A y \in RecordedFiYears : Val(req.currentAge) + y <= Val(req.targetAge)
    /\ (pc = "mc" /\ year >= 1 /\ req.targetAmount # None) =>
         ((\E e \in 1..(year - 1) : FirstReachedTooOld(e)) => fi_year = None)
    /\ (Done /\ result.summary.estimatedFIAge # None) =>
         Val(result.summary.estimatedFIAge) <= Val(req.targetAge)

\* Below 230.00 at age 31, above it at age 32 with a target age of 31
C14_Witness ==
  /\ pc = "mc"
  /\ year = 3
  /\ req.currentAge = Some(30)
  /\ req.targetAge = Some(31)
  /\ req.targetAmount # None
  /\ FirstReachedTooOld(2)
  /\ fi_year = None


(* C15: the FI estimate is (null, null) when no FI year was recorded;
   otherwise estimatedFIYear is the current calendar year plus the 50th
   percentile of the recorded FI years, and estimatedFIAge is currentAge plus
   that percentile whenever currentAge is supplied, 0 included, and null only
   when currentAge is not supplied. *)
C15_FiEstimate ==
  Done =>
    LET offset == calculate_percentile(fi_years, 50)
        s == result.summary
    IN IF fi_years = <<>>
       THEN s.estimatedFIYear = None /\ s.estimatedFIAge = None
       ELSE /\ s.estimatedFIYear = Some(CurrentCalendarYear + offset)
            /\ req.currentAge # None => s.estimatedFIAge = Some(Val(req.currentAge) + offset)
            /\ req.currentAge = None => s.estimatedFIAge = None


\* Point y of path p carries currentAge + y, or null without a currentAge
AgeOnEveryPoint(p) ==
  \A i \in 1..Len(p) :
    p[i].age = (IF req.currentAge = None THEN None ELSE Some(Val(req.currentAge) + (i - 1)))

(* C16: when currentAge is present in the request, 0 included, every point y
   of the deterministic path, of every Monte Carlo path and of every
   percentile path carries age = currentAge + y; when currentAge is absent
   every point's age is null. *)
C16_AgeIffCurrentAge ==
  /\ AgeOnEveryPoint(deterministic_path)
  /\ AgeOnEveryPoint(path)
  /\ AllPaths(mc_all_paths, AgeOnEveryPoint)
  /\ AllPaths(sample_paths, AgeOnEveryPoint)
  /\ AllPaths(all_paths, AgeOnEveryPoint)
  /\ Done => /\ AgeOnEveryPoint(result.medianPath)
             /\ AgeOnEveryPoint(result.p10Path)
             /\ AgeOnEveryPoint(result.p90Path)


\* The engine has not been called: nothing of calculate_projection has run
EngineNotInvoked ==
  /\ deterministic_path = <<>>
  /\ sim = 0 /\ run = 1 /\ year = -1
  /\ mc_all_paths = <<>> /\ sample_paths = <<>> /\ all_paths = <<>>
  /\ result = NoResult

\* The handler is past its validation
Validated == caller = "http" /\ pc # "http"

\* The request is answered with an error and the engine was left alone
Rejected == pc = "rejected" /\ response.status = 400 /\ EngineNotInvoked

\* The request has reached projection_service.calculate_projection
ReachedEngine == pc \in {"det", "mc", "agg", "done"} /\ response.status # 400

\* The rejections on contribution, volatility and horizon
BadContributionVolatilityOrYears ==
  req.monthlyContribution < 0 \/ req.annualVolatilityPct < 0 \/ req.years < 1

(* C17 as stated: the HTTP layer rejects, without invoking the engine, every
   request with monthlyContribution < 0, annualVolatilityPct < 0, years < 1
   or effectiveTaxRatePct outside [0, 0.6], and every other request reaches
   calculate_projection. *)
C17_RejectsOutsideFraction ==
  Validated =>
    IF \/ BadContributionVolatilityOrYears
       \/ req.effectiveTaxRatePct < 0
       \/ 10 * req.effectiveTaxRatePct > 6 * TaxScale
    THEN Rejected
    ELSE ReachedEngine

(* C17, amended: the HTTP layer rejects with status 400, without invoking
   the engine, every request with monthlyContribution < 0,
   annualVolatilityPct < 0, years < 1 or effectiveTaxRatePct outside
   [0, 60] (a percentage), the detail naming the first failed check; every
   other request reaches calculate_projection. *)
C17_RejectsOutsidePercent ==
  Validated =>
    IF \/ BadContributionVolatilityOrYears
       \/ req.effectiveTaxRatePct < 0
       \/ req.effectiveTaxRatePct > 60 * TaxScale
    THEN /\ Rejected
         /\ response.detail =
              (IF req.monthlyContribution < 0 THEN "Monthly contribution cannot be negative"
               ELSE IF req.annualVolatilityPct < 0 THEN "Volatility cannot be negative"
               ELSE IF req.years < 1 THEN "Projection horizon must be at least 1 year"
               ELSE "Tax rate must be between 0% and 60%")
    ELSE ReachedEngine

\* A rate just above 60 rejected, nothing else being wrong with the request
C17_Witness ==
  /\ Validated
  /\ Rejected
  /\ ~BadContributionVolatilityOrYears
  /\ req.effectiveTaxRatePct > 60 * TaxScale
  /\ response.detail = "Tax rate must be between 0% and 60%"


\* An input of the endpoint with a return above 0.5 and nothing to reject
HighReturnOtherwiseValid ==
  /\ caller = "http"
  /\ 2 * req.expectedAnnualReturnPct > RateScale
  /\ ~BadContributionVolatilityOrYears
  /\ req.effectiveTaxRatePct >= 0
  /\ req.effectiveTaxRatePct <= 60 * TaxScale

(* C18: a request with expectedAnnualReturnPct > 0.5 that is otherwise valid
   is never rejected: once validated, one warning is in the log and the
   engine runs; the response, when it comes, has status 200 and carries the
   engine's whole result. A valid request with a return of at most 0.5 logs
   nothing. *)
C18_HighReturnWarned ==
  /\ HighReturnOtherwiseValid =>
       /\ pc # "rejected"
       /\ response.status # 400
       /\ Validated => (ReachedEngine /\ log = <<"Very high expected return">>)
       /\ response.status = 200 =>
            /\ Done
            /\ response.body = result
            /\ WellFormedPath(response.body.deterministicPath, req.years)
            /\ WellFormedPath(response.body.medianPath, req.years)
            /\ Len(response.body.monteCarloPathsSample) = Min(SampleSize, DefaultNumSimulations)
            /\ response.body.summary.medianEndingValue = Round2(calculate_percentile(ending_values, 50))
  /\ (caller = "http" /\ 2 * req.expectedAnnualReturnPct <= RateScale) => log = <<>>
  /\ caller = "direct" => (log = <<>> /\ response = NoResponse)

C18_Witness ==
  /\ HighReturnOtherwiseValid
  /\ response.status = 200
  /\ log = <<"Very high expected return">>
  /\ Len(response.body.monteCarloPathsSample) = SampleSize
  /\ Len(all_paths) = DefaultNumSimulations


(* C19 as stated: the paths a call of run_monte_carlo_simulation returns are
   the full set of numSimulations paths, with exactly numSimulations ending
   values and at most numSimulations FI years. *)
C19_ReturnsAllPaths ==
  FirstRunReturned =>
    /\ Len(sample_paths) = req.numSimulations
    /\ Len(ending_values) = req.numSimulations
    /\ Len(fi_years) <= req.numSimulations

\* The collections of a run while it simulates, and what the two calls returned
C19_Collections ==
  /\ pc = "mc" =>
       /\ Len(mc_all_paths) = sim
       /\ Len(mc_ending_values) = sim
       /\ Len(mc_fi_years) <= sim
       /\ \A i \in 1..sim :
            /\ WellFormedPath(mc_all_paths[i], req.years)
            /\ mc_all_paths[i][req.years + 1].portfolioValue = RecordedAtHorizon(mc_ending_values[i])
  /\ FirstRunReturned =>
       /\ Len(sample_paths) = Min(SampleSize, req.numSimulations)
       /\ Len(ending_values) = req.numSimulations
       /\ Len(fi_years) <= req.numSimulations
  /\ pc \in {"agg", "done"} => Len(all_paths) = req.numSimulations

\* The end of a trial and the return of each of the two calls
C19_Step ==
  /\ sim' = sim + 1 =>
       /\ Len(trial_values) = req.years + 1
       /\ mc_ending_values' = Append(mc_ending_values, trial_values[req.years + 1])
       /\ mc_all_paths' = Append(mc_all_paths, path)
       /\ Len(mc_fi_years') = Len(mc_fi_years) + (IF fi_year = None THEN 0 ELSE 1)
  /\ (run = 1 /\ run' = 2) =>
       /\ sim = req.numSimulations
       /\ sample_paths' = SubSeq(mc_all_paths, 1, Min(SampleSize, req.numSimulations))
       /\ ending_values' = mc_ending_values
       /\ fi_years' = mc_fi_years
  /\ (pc = "mc" /\ pc' = "agg") =>
       /\ sim = req.numSimulations
       /\ all_paths' = mc_all_paths

(* C19, amended: run_monte_carlo_simulation returns the full set of
   numSimulations paths only when called with return_all_paths=True; called
   without it, it returns the first min(10, numSimulations) paths. Either way
   it returns exactly numSimulations ending values, each the year-`years`
   value of one trial, and the FI years, one for each trial that recorded a
   crossing and none for a trial that did not, so at most numSimulations. *)
C19_ReturnedCollections == []C19_Collections /\ [][C19_Step]_vars

\* More simulations than the sample holds, none of them reaching the target
C19_Witness ==
  /\ FirstRunReturned
  /\ pc = "mc"
  /\ req.numSimulations = SampleSize + 1
  /\ req.targetAmount = Some(230 * MoneyScale)
  /\ Len(sample_paths) = SampleSize
  /\ Len(ending_values) = SampleSize + 1
  /\ Len(fi_years) = 0


\* The case of C20: no contribution, a positive return, no volatility, a positive start
GrowthOnly ==
  /\ req.monthlyContribution = 0
  /\ req.expectedAnnualReturnPct > 0
  /\ req.annualVolatilityPct = 0
  /\ req.currentValue > 0

\* The value of the deterministic path at position i (year i - 1)
DetValueAt(i) == deterministic_path[i].portfolioValue

RECURSIVE DetUnroundedUpTo(_)
\* The values the deterministic loop carries after the years 0..y, before any rounding
DetUnroundedUpTo(y) ==
  IF y = 0 THEN <<req.currentValue>>
  ELSE LET s == DetUnroundedUpTo(y - 1)
       IN Append(s, DetMonths(s[y],
                              monthly_contribution_this_year(
                                req.monthlyContribution, req.annualContributionIncreasePct, y),
                              MonthlyReturn(req.expectedAnnualReturnPct), MonthsPerYear))

\* The value the deterministic loop carries after year y
DetUnrounded(y) == DetUnroundedUpTo(y)[y + 1]

(* C20 as stated: with monthlyContribution = 0, expectedAnnualReturnPct > 0,
   annualVolatilityPct = 0 and currentValue > 0, the portfolio value of the
   deterministic path is strictly increasing in y over 0..years. *)
C20_StrictlyIncreasing ==
  (GrowthOnly /\ deterministic_path # <<>>) =>
    \A i \in 1..req.years : DetValueAt(i) < DetValueAt(i + 1)

(* C20, amended: in that case the value the projection carries is strictly
   increasing, and the recorded path, which holds that value rounded to
   cents from year 1 on, is strictly increasing at every year whose growth
   is at least one cent and never decreasing from year 1 on. *)
C20_IncreasingByCents ==
  (GrowthOnly /\ Done) =>
    \A y \in 1..req.years :
      /\ result.deterministicPath = deterministic_path
      /\ DetUnrounded(y) > DetUnrounded(y - 1)
      /\ DetValueAt(y + 1) = Round2(DetUnrounded(y))
      /\ DetUnrounded(y) - DetUnrounded(y - 1) >= Cent => DetValueAt(y + 1) > DetValueAt(y)
      /\ y >= 2 => DetValueAt(y + 1) >= DetValueAt(y)

\* 200.00 at 12% over the whole horizon: every year above the one before
C20_Witness ==
  /\ GrowthOnly
  /\ Done
  /\ req.years = MaxYears
  /\ req.currentValue = 200 * MoneyScale
  /\ \A i \in 1..req.years : DetValueAt(i) < DetValueAt(i + 1)


RECURSIVE ContributionsUpTo(_)
\* The 12 monthly contributions of each of the years 1..y, summed
ContributionsUpTo(y) ==
  IF y = 0 THEN 0
  ELSE ContributionsUpTo(y - 1)
       + MonthsPerYear * monthly_contribution_this_year(
                           req.monthlyContribution, req.annualContributionIncreasePct, y)

\* The portfolio values of a path, in order
ValuesOf(p) == [i \in 1..Len(p) |-> p[i].portfolioValue]

\* The two worked examples: 10000.00 flat over 5 years, and a year of 12
\* contributions (100.00 + 12 * 10.00 = 220.00, the amounts of the example
\* taken in hundreds so that they fit the money grid)
NoReturnExamples ==
  /\ ValuesOf(calculate_deterministic_projection(10000 * MoneyScale, 0, 0, 0, 5, None))
       = [i \in 1..6 |-> 10000 * MoneyScale]
  /\ ValuesOf(calculate_deterministic_projection(100 * MoneyScale, 10 * MoneyScale, 0, 0, 1, None))
       = <<100 * MoneyScale, 220 * MoneyScale>>

(* C21: with expectedAnnualReturnPct = 0 the deterministic path has no
   compounding: the value at year y is currentValue plus the 12 monthly
   contributions of each year 1..y, recorded in cents from year 1 on;
   10000 with no contribution over 5 years gives six values of 10000.0, and
   a year of 12 contributions adds 12 times the contribution. *)
C21_NoCompounding ==
  /\ NoReturnExamples
  /\ (Done /\ req.expectedAnnualReturnPct = 0) =>
       /\ Len(result.deterministicPath) = req.years + 1
       /\ result.deterministicPath[1].portfolioValue = req.currentValue
       /\ \A y \in 1..req.years :
            result.deterministicPath[y + 1].portfolioValue
              = Round2(req.currentValue + ContributionsUpTo(y))

\* 100.00 with 10.00 a month growing 10% a year: 220.00 and then 352.00
C21_Witness ==
  /\ Done
  /\ req.expectedAnnualReturnPct = 0
  /\ req.annualContributionIncreasePct > 0
  /\ req.years = 2
  /\ ValuesOf(result.deterministicPath) = <<100 * MoneyScale, 220 * MoneyScale, 352 * MoneyScale>>


RECURSIVE StepsFrom(_, _, _, _)
\* v and the values after 1..k monthly steps value = (value + c) * (1 + r)
StepsFrom(v, c, r, k) ==
  IF k = 0 THEN <<v>>
  ELSE LET s == StepsFrom(v, c, r, k - 1)
       IN Append(s, MulDivRound(s[k] + c, RateScale + r, RateScale))

\* The value after exactly 12 monthly steps
TwelveSteps(v, c, r) == StepsFrom(v, c, r, 12)[13]

\* monthlyContribution * (1 + annualContributionIncreasePct)^(y - 1)
ContributionOfYear(y) ==
  MulDivRound(req.monthlyContribution,
              PowRate(RateScale + req.annualContributionIncreasePct, y - 1), RateScale)

RECURSIVE CarriedUpTo(_)
\* The unrounded values carried from year to year, years 0..y
CarriedUpTo(y) ==
  IF y = 0 THEN <<req.currentValue>>
  ELSE LET s == CarriedUpTo(y - 1)
       IN Append(s, TwelveSteps(s[y], ContributionOfYear(y),
                                RoundHalfEven(req.expectedAnnualReturnPct, 12)))

(* C22: for each year y from 1 to years the deterministic projection applies
   exactly 12 monthly steps value = (value + monthlyContribution *
   (1 + annualContributionIncreasePct)^(y-1)) * (1 + expectedAnnualReturnPct/12)
   to the unrounded value carried from the year before and records the
   result rounded to cents at year y; year 1 uses the base contribution
   unmodified. *)
C22_MonthlyRecurrence ==
  Done =>
    /\ ContributionOfYear(1) = req.monthlyContribution
    /\ \A y \in 1..req.years :
         /\ result.deterministicPath[y + 1].year = y
         /\ result.deterministicPath[y + 1].portfolioValue = Round2(CarriedUpTo(y)[y + 1])

\* 100.007 with 10.00 a month growing 10% a year at 12%: two years of steps
C22_Witness ==
  /\ Done
  /\ req.years = 2
  /\ req.monthlyContribution > 0
  /\ req.annualContributionIncreasePct > 0
  /\ req.expectedAnnualReturnPct > 0
  /\ ContributionOfYear(2) > req.monthlyContribution
  /\ CarriedUpTo(1)[2] # Round2(CarriedUpTo(1)[2])
  /\ result.deterministicPath[3].portfolioValue = Round2(CarriedUpTo(2)[3])


\* The annual returns a draw can give: mean + z * volatility, nothing cut off
PossibleDraws ==
  { req.expectedAnnualReturnPct + z * req.annualVolatilityPct : z \in GaussDraws }

C23_DrawsOfTrial ==
  /\ (pc = "mc" /\ year >= 1) =>
       /\ Len(trial_draws) = year - 1
       /\ Len(trial_values) = year
       /\ trial_values[1] = req.currentValue
       /\ \A y \in 1..(year - 1) :
            /\ trial_draws[y] \in PossibleDraws
            /\ trial_values[y + 1]
                 = TwelveSteps(trial_values[y], ContributionOfYear(y),
                               RoundHalfEven(trial_draws[y], 12))
            /\ path[y + 1].portfolioValue = Round2(trial_values[y + 1])
  /\ year = -1 => trial_draws = <<>>

C23_Step ==
  /\ (year >= 1 /\ year' = year + 1) => Len(trial_draws') = Len(trial_draws) + 1
  /\ trial_draws' # trial_draws =>
       \/ (year >= 1 /\ year' = year + 1 /\ SubSeq(trial_draws', 1, Len(trial_draws)) = trial_draws)
       \/ (sim' = sim + 1 /\ trial_draws' = <<>>)
  /\ sim' = sim + 1 =>
       /\ Len(trial_draws) = req.years
       /\ mc_ending_values' = Append(mc_ending_values, trial_values[req.years + 1])

(* C23: in each Monte Carlo trial exactly one annual return is drawn per
   year 1..years (years draws by the end of the trial, none for year 0), and
   that draw divided by 12 is the monthly return of all 12 steps of its year;
   the draw and the value are taken as they come, so a value below zero is
   kept, recorded and carried on, never floored at zero. *)
C23_OneDrawPerYear == []C23_DrawsOfTrial /\ [][C23_Step]_vars

\* A draw below -1200% a year: the value after year 1 is negative and recorded so
C23_Witness ==
  /\ pc = "mc"
  /\ year = 2
  /\ Len(trial_draws) = 1
  /\ trial_draws[1] < -12 * RateScale
  /\ trial_values[2] < 0
  /\ path[2].portfolioValue < 0


\* The longest list all of whose orders are tried
AllOrdersUpTo == MaxDraws + 1

\* The permutations of 1..n, for every n up to AllOrdersUpTo
AllPermutations ==
  [n \in 0..AllOrdersUpTo |->
     { f \in [1..n -> 1..n] : \A i, j \in 1..n : f[i] = f[j] => i = j }]

\* Orders of a longer list: reversed, rotated by one, the first two swapped
SomePermutations(n) ==
  { [i \in 1..n |-> n + 1 - i],
    [i \in 1..n |-> IF i = n THEN 1 ELSE i + 1],
    [i \in 1..n |-> IF i = 1 THEN 2 ELSE IF i = 2 THEN 1 ELSE i] }

\* The orders in which the n trials of a run are made to complete
TrialOrders(n) == IF n <= AllOrdersUpTo THEN AllPermutations[n] ELSE SomePermutations(n)

\* The list in the order f
Permuted(list, f) == [i \in 1..Len(list) |-> list[f[i]]]

(* C24: the aggregated outputs (the ending-value percentiles, the
   probability of hitting the target, the estimated FI year and age, the
   tax information and the median, p10 and p90 paths) depend only on the
   multiset of trial results: with the trials of a run completing in any
   other order, the aggregates are those of the sequential loop. *)
C24_OrderIndependent ==
  Done =>
    /\ \A f \in TrialOrders(Len(ending_values)) :
         Summary(Permuted(ending_values, f), fi_years, req) = result.summary
    /\ \A f \in TrialOrders(Len(fi_years)) :
         Summary(ending_values, Permuted(fi_years, f), req) = result.summary
    /\ \A f \in TrialOrders(Len(all_paths)) :
         /\ calculate_median_path(Permuted(all_paths, f), req.years) = result.medianPath
         /\ calculate_confidence_bands(Permuted(all_paths, f), req.years)
              = <<result.p10Path, result.p90Path>>

\* Three trials completing out of ascending order, one of them with an FI year
C24_Witness ==
  /\ Done
  /\ Len(ending_values) = 3
  /\ ending_values[1] > ending_values[2]
  /\ ending_values[3] > ending_values[2]
  /\ Cardinality({all_paths[i] : i \in 1..3}) = 2
  /\ Len(fi_years) \in 1..2
  /\ Cardinality(TrialOrders(3)) = 6


(* C25: called with years = 0, calculate_deterministic_projection does not
   fail and returns exactly one point, the year-0 point, which carries
   currentValue as it was given. *)
C25_ZeroYears ==
  (req.years = 0 /\ pc \in {"mc", "agg", "done"}) =>
    /\ Len(deterministic_path) = 1
    /\ deterministic_path[1].year = 0
    /\ deterministic_path[1].portfolioValue = req.currentValue
    /\ deterministic_path
         = calculate_deterministic_projection(
             req.currentValue, req.monthlyContribution,
             req.annualContributionIncreasePct, req.expectedAnnualReturnPct,
             0, req.currentAge)

\* 100.007 with contributions and a return, 0 years: the one point 100.007
C25_Witness ==
  /\ req.years = 0
  /\ req.monthlyContribution > 0
  /\ req.expectedAnnualReturnPct > 0
  /\ req.currentAge = Some(30)
  /\ deterministic_path = <<[year |-> 0, age |-> Some(30), portfolioValue |-> 100 * MoneyScale + 700]>>


(* C26: every FI year a trial records lies in 1..years: the target is
   checked only after the 12 monthly steps of a year, never at year 0, so a
   trial that starts at or above the target amount records year 1, not year
   0; and estimatedFIYear, when it is not null, lies between the current
   calendar year plus 1 and the current calendar year plus years. *)
C26_FiYearRange ==
  /\ \A y \in RecordedFiYears : y \in 1..req.years
  /\ (pc = "mc" /\ year = 1) => fi_year = None
  /\ (Done /\ result.summary.estimatedFIYear # None) =>
       /\ Val(result.summary.estimatedFIYear) >= CurrentCalendarYear + 1
       /\ Val(result.summary.estimatedFIYear) <= CurrentCalendarYear + req.years

\* 200.00 against a target of 150.00: FI year 1, not 0
C26_Witness ==
  /\ Done
  /\ req.targetAmount # None
  /\ req.currentValue >= Val(req.targetAmount)
  /\ Val(req.targetAmount) > 0
  /\ fi_years = <<1>>
  /\ result.summary.estimatedFIYear = Some(CurrentCalendarYear + 1)


\* The case of C27: a positive target amount, no target age, a horizon of at
\* least one year (the domain of `years`; with 0 years no year is ever checked)
PositiveTargetNoCap ==
  /\ req.targetAmount # None
  /\ Val(req.targetAmount) > 0
  /\ req.targetAge = None
  /\ req.years >= 1

(* C27: with a positive targetAmount and no targetAge, a
   probabilityOfHittingTarget above 0 implies an estimatedFIYear that is not
   null: every trial whose ending value is at least the target amount has
   recorded an FI year by its last year, and the ending values and the FI
   years behind the two statistics are those of one run, the first. *)
C27_HitImpliesFiYear ==
  PositiveTargetNoCap =>
    /\ (pc = "mc" /\ year = req.years + 1 /\ portfolio_value >= Val(req.targetAmount)) =>
         fi_year # None
    /\ (pc = "mc" /\ year = -1) =>
         Count(mc_ending_values, LAMBDA v : v >= Val(req.targetAmount)) <= Len(mc_fi_years)
    /\ FirstRunReturned => Hits <= Len(fi_years)
    /\ Done =>
         /\ result.summary.probabilityOfHittingTarget
              = Some(Round1(Val(ProbabilityHittingTarget(ending_values, req.targetAmount))))
         /\ result.summary.estimatedFIYear
              = calculate_fi_estimate(fi_years, req.currentAge, CurrentCalendarYear)[1]
         /\ Val(result.summary.probabilityOfHittingTarget) > 0 =>
              result.summary.estimatedFIYear # None

\* Two trials, one ending at or above the target and one below it
C27_Witness ==
  /\ Done
  /\ PositiveTargetNoCap
  /\ Len(ending_values) = 2
  /\ Hits = 1
  /\ result.summary.probabilityOfHittingTarget = Some(50 * ProbScale)
  /\ result.summary.estimatedFIYear # None


\* The case of C28: a target age without a current age
TargetAgeWithoutCurrentAge == req.targetAge # None /\ req.currentAge = None

(* C28: when targetAge is set and currentAge is absent no trial ever
   records an FI year, whatever values it reaches, so estimatedFIYear and
   estimatedFIAge are null, also when probabilityOfHittingTarget is 100. *)
C28_NoFiYearWithoutCurrentAge ==
  TargetAgeWithoutCurrentAge =>
    /\ RecordedFiYears = {}
    /\ Done => /\ result.summary.estimatedFIYear = None
               /\ result.summary.estimatedFIAge = None

\* Every trial ended at or above the target amount, and no FI year is reported
C28_Witness ==
  /\ TargetAgeWithoutCurrentAge
  /\ Truthy(req.targetAmount)
  /\ Done
  /\ result.summary.probabilityOfHittingTarget = Some(100 * ProbScale)
  /\ result.summary.estimatedFIYear = None
  /\ \E i \in 1..Len(result.monteCarloPathsSample) : \E j \in 2..(req.years + 1) :
             result.monteCarloPathsSample[i][j].portfolioValue >= Val(req.targetAmount)


\* The request with its target amount taken away
WithoutTarget(r) == [r EXCEPT !.targetAmount = None]

(* C29: a request with targetAmount = 0 is treated exactly like a request
   without a target amount: no trial records an FI year, and
   probabilityOfHittingTarget, estimatedFIYear, estimatedFIAge and taxInfo
   are all null, although every ending value >= 0 would meet the target. *)
C29_ZeroTargetIsNoTarget ==
  req.targetAmount = Some(0) =>
    /\ RecordedFiYears = {}
    /\ Done =>
         /\ result.summary.probabilityOfHittingTarget = None
         /\ result.summary.estimatedFIYear = None
         /\ result.summary.estimatedFIAge = None
         /\ result.summary.taxInfo = None
         /\ result.summary = Summary(ending_values, <<>>, WithoutTarget(req))

\* A target of 0 with a tax rate above 0 and every ending value above 0
C29_Witness ==
  /\ Done
  /\ req.targetAmount = Some(0)
  /\ req.effectiveTaxRatePct > 0
  /\ req.years >= 1
  /\ Len(ending_values) >= 2
  /\ \A i \in 1..Len(ending_values) : ending_values[i] >= 0
  /\ result.summary.probabilityOfHittingTarget = None
  /\ result.summary.taxInfo = None


(* C30: for every result of calculate_projection with numSimulations >= 1,
   summary.p10EndingValue <= summary.medianEndingValue <=
   summary.p90EndingValue, whatever returns were drawn: the three are
   entries of one sorted list of ending values at indices that do not
   decrease with the percentile, and rounding to cents keeps the order. *)
C30_SummaryOrdering ==
  (Done /\ req.numSimulations >= 1) =>
    /\ Len(ending_values) = req.numSimulations
    /\ PercentileIndex(Len(ending_values), 10) <= PercentileIndex(Len(ending_values), 50)
    /\ PercentileIndex(Len(ending_values), 50) <= PercentileIndex(Len(ending_values), 90)
    /\ calculate_percentile(ending_values, 10) <= calculate_percentile(ending_values, 50)
    /\ calculate_percentile(ending_values, 50) <= calculate_percentile(ending_values, 90)
    /\ result.summary.p10EndingValue = Round2(calculate_percentile(ending_values, 10))
    /\ result.summary.medianEndingValue = Round2(calculate_percentile(ending_values, 50))
    /\ result.summary.p90EndingValue = Round2(calculate_percentile(ending_values, 90))
    /\ result.summary.p10EndingValue <= result.summary.medianEndingValue
    /\ result.summary.medianEndingValue <= result.summary.p90EndingValue

\* Trials that ended in descending order, the 10th percentile below the median
C30_Witness ==
  /\ Done
  /\ Len(ending_values) >= 2
  /\ ending_values[1] > ending_values[2]
  /\ result.summary.p10EndingValue < result.summary.medianEndingValue
  /\ result.summary.medianEndingValue <= result.summary.p90EndingValue

====
